---- MODULE Spec2Model ----
(***************************************************************************)
(* tinyparam: a JSON-backed parameter store (src/tinyparam.c).             *)
(*                                                                         *)
(* One handle (tp_handle_t) opened on one file, used by NThreads threads   *)
(* that call tp_get and tp_set.  The JSON tree keeps the shape it was      *)
(* parsed with: tp_set only ever assigns the valuestring field of a node,  *)
(* so the tree is the fixed shape below plus one valuestring per node.     *)
(*                                                                         *)
(* Specifications:                                                         *)
(*   Spec      one thread calling with every key                           *)
(*   SpecMT    NThreads threads calling with the shared keys               *)
(*   SpecLive  SpecMT under fair scheduling                                *)
(*   SpecEmpty Spec on a file whose root string member has the empty name  *)
(*   SpecPath  one thread on stores whose paths are about as long as the   *)
(*             buffer tp_set builds the temporary name in                  *)
(*   SpecTwo   one thread, and the tp_set of a second handle opened on the *)
(*             same path                                                   *)
(*   SpecOpen  tp_open on the files it may find, then tp_get and tp_close  *)
(*                                                                         *)
(* A file's content is the sequence of the string leaves' values in        *)
(* document order (everything else cJSON_Print emits is fixed by the       *)
(* shape); a truncated file is a proper prefix of that sequence.           *)
(*                                                                         *)
(* A key is the sequence of the pieces between its dots, so "a..b" is      *)
(* <<"a", "", "b">> and a key without a dot has length 1.                  *)
(*                                                                         *)
(* strdup of a key, a value or a result is taken to succeed; every file    *)
(* operation and cJSON_Print may fail, and so may every acquisition in     *)
(* tp_open.  A path is known by its length only.                           *)
(***************************************************************************)
EXTENDS Integers, Sequences, FiniteSets, TLC

\* ---------------------------------------------------------------- bounds
\* the threads of the concurrent specification
NThreads == 2
\* how many file or allocation failures one behaviour may meet
MaxFaults == 1

\* ------------------------------------------------------------- the tree
NULL == "NULL"
\* what a valuestring points to between free() and the assignment after it
FREED == "FREED"
ROOT == "ROOT"

\* the document:  { "sys": { "vol": "50", "num": 7 }, "name": "50" }
Nodes == {"sys", "vol", "num", "name"}

cJSON_Object == "Object"
cJSON_String == "String"
cJSON_Number == "Number"

type == [n \in Nodes \cup {ROOT} |->
           CASE n = ROOT  -> cJSON_Object
             [] n = "sys" -> cJSON_Object
             [] n = "num" -> cJSON_Number
             [] OTHER     -> cJSON_String]

\* the children of each node, by name
child == [n \in Nodes \cup {ROOT} |->
           CASE n = ROOT  -> {"sys", "name"}
             [] n = "sys" -> {"vol", "num"}
             [] OTHER     -> {}]

\* the string leaves in document order
LeafOrder == <<"vol", "name">>

InitialValue == "50"
Values == {"75", "100"}

\* the keys and values the concurrent specification calls with
SharedKeys == { <<"sys", "vol">>, <<"sys", "x">> }
SharedValues == {"75"}

Keys == { <<"name">>, <<"sys">>, <<"x">>, <<"">>,
          <<"sys", "vol">>, <<"sys", "num">>, <<"sys", "x">>, <<"sys", "">>,
          <<"name", "x">>, <<"sys", "vol", "x">>, <<"sys", "", "vol">>,
          <<"", "">> }

Absent == <<"ENOENT">>
NoThread == 0

\* char temp_file[256]
TempSize == 256
\* strlen("test.json")
TestPath == 9
\* the suffix ".tmp"
Suffix == 4

cJSON_Array == "Array"

\* what becomes of each thing tp_open acquires
Resources == {"handle", "lock", "filename", "fp", "buf", "root"}
NoResources == [r \in Resources |-> "none"]
\* the resources of a handle tp_open has returned
Opened == [r \in Resources |-> IF r = "buf" THEN "freed" ELSE "held"]

\* no second store is at work on the path
NoPeer == [pc |-> "off", temp_fp |-> NULL, text |-> <<>>, ret |-> NULL]
\* no rename has been made while a second store was at work
NoRename == [who |-> "none", text |-> <<>>]

\* valuestring, file, tmpfile, fp, lock: the handle, its tree and the two paths
\* crashed: the process has died; faults: the failures met so far
\* pc, key, value, cur, buf, ret: each thread's position, arguments and locals
\* pre, lastSet, window: history, read only by the properties below
\* leafname: the name of the root's string member (node "name") in the file
\* rootkind: the type of the root the file's text parses to
\* pathlen: strlen(h->filename);  res: the resources tp_open acquired
\* temp_fp: which file each thread's temp_fp stream is attached to
\* peer: the tp_set of a second store opened on the same path
\* lastRename: history, read only by the properties below
VARIABLES valuestring, file, tmpfile, fp, lock, crashed, faults,
          pc, key, value, cur, buf, ret, pre, lastSet, window,
          leafname, rootkind, pathlen, res, temp_fp, peer, lastRename

vars == <<valuestring, file, tmpfile, fp, lock, crashed, faults,
          pc, key, value, cur, buf, ret, pre, lastSet, window,
          leafname, rootkind, pathlen, res, temp_fp, peer, lastRename>>

store == <<leafname, rootkind, pathlen, res>>
second == <<peer, lastRename>>
rest == <<temp_fp, second>>

handle == <<valuestring, file, tmpfile, fp>>
env == <<crashed, faults>>
locals == <<key, value, cur, buf>>

Threads == DOMAIN pc

\* ------------------------------------------------- the JSON collaborator
\* the root's string member is stored under leafname; the items of a root
\* that is not an object have no names
cJSON_GetObjectItem(node, name) ==
    IF node = NULL THEN NULL
    ELSE IF node = ROOT
         THEN IF rootkind # cJSON_Object THEN NULL
              ELSE IF name = leafname THEN "name"
              ELSE IF name \in child[ROOT] \ {"name"} THEN name
              ELSE NULL
    ELSE IF name \in child[node] THEN name ELSE NULL

\* a string leaf with no valuestring prints as ""
cJSON_Print(vs) ==
    [i \in 1..Len(LeafOrder) |->
        IF vs[LeafOrder[i]] = NULL THEN "" ELSE vs[LeafOrder[i]]]

\* a text parses when it is complete; only string nodes get a valuestring
\* from the parser
Parses(text) == text # Absent /\ Len(text) = Len(LeafOrder)

cJSON_Parse(text) ==
    [n \in Nodes |->
        IF Parses(text) /\ \E i \in 1..Len(LeafOrder) : LeafOrder[i] = n
        THEN text[CHOOSE i \in 1..Len(LeafOrder) : LeafOrder[i] = n]
        ELSE NULL]

\* ------------------------------------------------------------ traversal
\* strtok_r(str, ".", &p): the non-empty pieces, in order
strtok_r(k) == SelectSeq(k, LAMBDA s : s # "")

\* while (cur && cur->type == cJSON_Object) { next token; descend }
RECURSIVE Descend(_, _, _)
Descend(c, toks, i) ==
    IF c # NULL /\ type[c] = cJSON_Object
    THEN IF i > Len(toks)
         THEN [incomplete |-> TRUE, cur |-> c]
         ELSE Descend(cJSON_GetObjectItem(c, toks[i]), toks, i + 1)
    ELSE [incomplete |-> FALSE, cur |-> c]

\* the node a key leads tp_get and tp_set to, or NULL
Lookup(k) ==
    IF Len(k) = 1
    THEN cJSON_GetObjectItem(ROOT, k[1])
    ELSE LET toks == strtok_r(k) IN
         IF toks = <<>> THEN NULL
         ELSE LET d == Descend(cJSON_GetObjectItem(ROOT, toks[1]), toks, 2) IN
              IF d.incomplete THEN NULL ELSE d.cur

\* what tp_get returns for a key on a tree
GetResult(vs, k) ==
    LET c == Lookup(k) IN
    IF c = NULL THEN NULL
    ELSE IF vs[c] = NULL THEN NULL ELSE vs[c]

\* the node a key names when every piece must be the name of a child of an
\* object and nothing may be left over
RECURSIVE Resolve(_, _, _)
Resolve(c, k, i) ==
    IF i > Len(k) THEN c
    ELSE IF c = NULL \/ type[c] # cJSON_Object THEN NULL
    ELSE Resolve(cJSON_GetObjectItem(c, k[i]), k, i + 1)

\* the key resolves to an existing string leaf
StringLeafKey(k) ==
    LET c == Resolve(ROOT, k, 1) IN c # NULL /\ c # ROOT /\ type[c] = cJSON_String

NoSet == [key |-> <<>>, value |-> NULL, ret |-> "none"]
FailedSet == [key |-> <<>>, value |-> NULL, ret |-> "failed"]
NoPre == [valuestring |-> <<>>, file |-> <<>>]

\* the tree and the file as a call of tp_set finds them
Snapshot == [valuestring |-> valuestring, file |-> file]

\* the file tp_open read
InitialFile == [i \in 1..Len(LeafOrder) |-> InitialValue]

\* the positions of tp_set and tp_get between lock and unlock
SetCritical == {"set_walk", "set_dup", "set_fopen", "set_print", "set_fwrite",
                "set_rename", "set_reopen"}
GetCritical == {"get_walk"}

\* the handle as tp_open returns it, used by the threads in T, on a file
\* whose root string member is called ln and whose path is pl long, with a
\* second store in state pr
StartWith(T, ln, pl, pr) ==
    /\ leafname = ln
    /\ rootkind = cJSON_Object
    /\ pathlen = pl
    /\ res = Opened
    /\ temp_fp = [t \in T |-> NULL]
    /\ peer = pr
    /\ lastRename = NoRename
    /\ valuestring = cJSON_Parse(InitialFile)
    /\ file = InitialFile
    /\ tmpfile = Absent
    /\ fp = "open"
    /\ lock = NoThread
    /\ crashed = FALSE
    /\ faults = 0
    /\ pc = [t \in T |-> "idle"]
    /\ key = [t \in T |-> <<>>]
    /\ value = [t \in T |-> NULL]
    /\ cur = [t \in T |-> NULL]
    /\ buf = [t \in T |-> <<>>]
    /\ ret = [t \in T |-> NULL]
    /\ pre = [t \in T |-> NoPre]
    /\ lastSet = NoSet
    /\ window = [t \in T |-> {}]

\* the store of src/test.c
Start(T) == StartWith(T, "name", TestPath, NoPeer)

\* one client thread
Init == Start({1})

\* NThreads client threads on the one handle
InitMT == Start(1..NThreads)

\* ----------------------------------------------------------------- lock
pthread_mutex_lock(t) == lock = NoThread /\ lock' = t

pthread_mutex_unlock(t) == lock' = NoThread

\* a file operation or cJSON_Print fails
Fault == faults < MaxFaults /\ faults' = faults + 1

\* --------------------------------------------------------------- tp_open
\* free, fclose or pthread_mutex_destroy of resource r
Release(rs, r) ==
    [rs EXCEPT ![r] = CASE @ = "held"  -> "freed"
                        [] @ = "freed" -> "twice"
                        [] OTHER       -> "wild"]

RECURSIVE ReleaseAll(_, _)
ReleaseAll(rs, rr) ==
    IF rr = <<>> THEN rs ELSE ReleaseAll(Release(rs, Head(rr)), Tail(rr))

\* the positions of tp_open, and the one after it returned NULL
OpenPcs == {"open_access", "open_calloc", "open_mutex", "open_strdup",
            "open_fopen", "open_stat", "open_malloc", "open_fread",
            "open_parse", "open_fail"}

\* what every step of tp_open leaves alone
OpenFrame ==
    UNCHANGED <<file, tmpfile, lock, crashed, key, value, cur, buf, ret, pre,
                lastSet, window, leafname, rootkind, pathlen, rest>>

\* a step of tp_open to position p that acquires and releases nothing
OpenGoto(t, p) ==
    /\ pc' = [pc EXCEPT ![t] = p]
    /\ UNCHANGED <<valuestring, fp, res>>

\* a return NULL of tp_open after releasing the resources rr
OpenReturnNull(t, rr) ==
    /\ pc' = [pc EXCEPT ![t] = "open_failed"]
    /\ res' = ReleaseAll(res, rr)
    /\ UNCHANGED <<valuestring, fp>>

\* if (access(file, F_OK) != 0) return NULL
tp_open_access(t) ==
    /\ pc[t] = "open_access"
    /\ OpenFrame /\ UNCHANGED faults
    /\ IF file = Absent
       THEN OpenReturnNull(t, <<>>)
       ELSE OpenGoto(t, "open_calloc")

\* handle = calloc(1, sizeof(tp_handle_t))
tp_open_calloc(t) ==
    /\ pc[t] = "open_calloc"
    /\ OpenFrame
    /\ \/ /\ res' = [res EXCEPT !["handle"] = "held"]
          /\ pc' = [pc EXCEPT ![t] = "open_mutex"]
          /\ UNCHANGED <<valuestring, fp, faults>>
       \/ Fault /\ OpenReturnNull(t, <<>>)

\* pthread_mutex_init(&handle->lock, NULL)
tp_open_mutex(t) ==
    /\ pc[t] = "open_mutex"
    /\ OpenFrame
    /\ \/ /\ res' = [res EXCEPT !["lock"] = "held"]
          /\ pc' = [pc EXCEPT ![t] = "open_strdup"]
          /\ UNCHANGED <<valuestring, fp, faults>>
       \/ Fault /\ OpenReturnNull(t, <<"handle">>)

\* handle->filename = strdup(file)
tp_open_strdup(t) ==
    /\ pc[t] = "open_strdup"
    /\ OpenFrame
    /\ \/ /\ res' = [res EXCEPT !["filename"] = "held"]
          /\ pc' = [pc EXCEPT ![t] = "open_fopen"]
          /\ UNCHANGED <<valuestring, fp, faults>>
       \/ Fault /\ OpenReturnNull(t, <<"lock", "handle">>)

\* fp = fopen(file, "r+"); handle->fp = fp
tp_open_fopen(t) ==
    /\ pc[t] = "open_fopen"
    /\ OpenFrame
    /\ \/ /\ res' = [res EXCEPT !["fp"] = "held"]
          /\ fp' = "open"
          /\ pc' = [pc EXCEPT ![t] = "open_stat"]
          /\ UNCHANGED <<valuestring, faults>>
       \/ Fault /\ OpenReturnNull(t, <<"lock", "filename", "handle">>)

\* stat(file, &st)
tp_open_stat(t) ==
    /\ pc[t] = "open_stat"
    /\ OpenFrame
    /\ \/ OpenGoto(t, "open_malloc") /\ UNCHANGED faults
       \/ Fault /\ OpenGoto(t, "open_fail")

\* buf = malloc(size + 1)
tp_open_malloc(t) ==
    /\ pc[t] = "open_malloc"
    /\ OpenFrame
    /\ \/ /\ res' = [res EXCEPT !["buf"] = "held"]
          /\ pc' = [pc EXCEPT ![t] = "open_fread"]
          /\ UNCHANGED <<valuestring, fp, faults>>
       \/ Fault /\ OpenGoto(t, "open_fail")

\* n = fread(buf, 1, size, handle->fp); if (n != size) goto fail
tp_open_fread(t) ==
    /\ pc[t] = "open_fread"
    /\ OpenFrame
    /\ \/ OpenGoto(t, "open_parse") /\ UNCHANGED faults
       \/ Fault /\ OpenGoto(t, "open_fail")

\* handle->root = cJSON_Parse(buf); free(buf); return handle
tp_open_parse(t) ==
    /\ pc[t] = "open_parse"
    /\ OpenFrame
    /\ \/ /\ Parses(file)
          /\ valuestring' = cJSON_Parse(file)
          /\ res' = Release([res EXCEPT !["root"] = "held"], "buf")
          /\ pc' = [pc EXCEPT ![t] = "idle"]
          /\ UNCHANGED <<fp, faults>>
       \/ ~Parses(file) /\ OpenGoto(t, "open_fail") /\ UNCHANGED faults
       \/ Fault /\ OpenGoto(t, "open_fail")

\* tp_open_fail without the free of the read buffer
tp_open_fail_leak(t) ==
    /\ pc[t] = "open_fail"
    /\ OpenFrame /\ UNCHANGED faults
    /\ pc' = [pc EXCEPT ![t] = "open_failed"]
    /\ res' = ReleaseAll(res,
                 (IF fp # NULL THEN <<"fp">> ELSE <<>>)
                 \o <<"filename", "lock", "handle">>)
    /\ fp' = NULL
    /\ UNCHANGED valuestring

\* fail: if (buf) free(buf); if (handle->fp) fclose(handle->fp);
\* if (handle->filename) free(handle->filename); destroy the lock; free(handle)
tp_open_fail(t) ==
    /\ pc[t] = "open_fail"
    /\ OpenFrame /\ UNCHANGED faults
    /\ pc' = [pc EXCEPT ![t] = "open_failed"]
    /\ res' = ReleaseAll(res,
                 (IF res["buf"] = "held" THEN <<"buf">> ELSE <<>>)
                 \o (IF fp # NULL THEN <<"fp">> ELSE <<>>)
                 \o (IF res["filename"] = "held" THEN <<"filename">> ELSE <<>>)
                 \o <<"lock", "handle">>)
    /\ fp' = NULL
    /\ UNCHANGED valuestring

\* -------------------------------------------------------------- tp_close
\* tp_close(h), called when no thread is inside a call on h
tp_close(t) ==
    /\ ~crashed
    /\ \A u \in Threads : pc[u] = "idle"
    /\ pc' = [u \in Threads |-> "closed"]
    /\ res' = ReleaseAll(res,
                 (IF fp # NULL THEN <<"fp">> ELSE <<>>)
                 \o (IF res["root"] = "held" THEN <<"root">> ELSE <<>>)
                 \o (IF res["filename"] = "held" THEN <<"filename">> ELSE <<>>)
                 \o <<"lock", "handle">>)
    /\ fp' = NULL
    /\ valuestring' = [n \in Nodes |-> NULL]
    /\ UNCHANGED <<file, tmpfile, lock, env, locals, ret, pre, lastSet, window,
                   leafname, rootkind, pathlen, rest>>

\* ---------------------------------------------------------------- tp_get
\* a tp_get that has been called and has not yet read the leaf (history)
Pending(t) == pc[t] \in {"get_lock", "get_walk"}

tp_get_call(t, k) ==
    /\ ~crashed
    /\ UNCHANGED store
    /\ pc[t] = "idle"
    /\ pc' = [pc EXCEPT ![t] = "get_lock"]
    /\ key' = [key EXCEPT ![t] = k]
    /\ ret' = [ret EXCEPT ![t] = NULL]
    /\ window' = [window EXCEPT ![t] =
          LET c == Lookup(k) IN
          IF c = NULL THEN {NULL}
          ELSE ({valuestring[c]} \cup
                {pre[u].valuestring[c] : u \in {u \in Threads : pc[u] \in SetCritical}})
               \ {FREED}]
    /\ UNCHANGED <<handle, lock, env, value, cur, buf, pre, lastSet, rest>>

\* if (!h || !key) return NULL, for a call with a null handle or a null key
tp_get_null(t) ==
    /\ ~crashed
    /\ UNCHANGED store
    /\ pc[t] = "idle"
    /\ pc' = [pc EXCEPT ![t] = "get_ret"]
    /\ key' = [key EXCEPT ![t] = <<>>]
    /\ ret' = [ret EXCEPT ![t] = NULL]
    /\ window' = [window EXCEPT ![t] = {NULL}]
    /\ UNCHANGED <<handle, lock, env, value, cur, buf, pre, lastSet, rest>>

tp_get_lock(t) ==
    /\ ~crashed
    /\ UNCHANGED store
    /\ pc[t] = "get_lock"
    /\ pthread_mutex_lock(t)
    /\ pc' = [pc EXCEPT ![t] = "get_walk"]
    /\ UNCHANGED <<handle, env, locals, ret, pre, lastSet, rest, window>>

\* tp_get_walk with the unlock left out of the not-found return
tp_get_walk_leak(t) ==
    /\ ~crashed
    /\ UNCHANGED store
    /\ pc[t] = "get_walk"
    /\ ret' = [ret EXCEPT ![t] = GetResult(valuestring, key[t])]
    /\ IF GetResult(valuestring, key[t]) = NULL
       THEN lock' = lock
       ELSE pthread_mutex_unlock(t)
    /\ pc' = [pc EXCEPT ![t] = "get_ret"]
    /\ UNCHANGED <<handle, env, locals, pre, lastSet, rest, window>>

\* tp_get_walk handing out the leaf's own string in place of a copy of it
tp_get_walk_take(t) ==
    /\ ~crashed
    /\ UNCHANGED store
    /\ pc[t] = "get_walk"
    /\ ret' = [ret EXCEPT ![t] = GetResult(valuestring, key[t])]
    /\ valuestring' = IF GetResult(valuestring, key[t]) = NULL
                      THEN valuestring
                      ELSE [valuestring EXCEPT ![Lookup(key[t])] = NULL]
    /\ pthread_mutex_unlock(t)
    /\ pc' = [pc EXCEPT ![t] = "get_ret"]
    /\ UNCHANGED <<file, tmpfile, fp, env, locals, pre, lastSet, rest, window>>

tp_get_walk(t) ==
    /\ ~crashed
    /\ UNCHANGED store
    /\ pc[t] = "get_walk"
    /\ ret' = [ret EXCEPT ![t] = GetResult(valuestring, key[t])]
    /\ pthread_mutex_unlock(t)
    /\ pc' = [pc EXCEPT ![t] = "get_ret"]
    /\ UNCHANGED <<handle, env, locals, pre, lastSet, rest, window>>

tp_get_return(t) ==
    /\ ~crashed
    /\ UNCHANGED store
    /\ pc[t] = "get_ret"
    /\ pc' = [pc EXCEPT ![t] = "idle"]
    /\ key' = [key EXCEPT ![t] = <<>>]
    /\ ret' = [ret EXCEPT ![t] = NULL]
    /\ window' = [window EXCEPT ![t] = {}]
    /\ UNCHANGED <<handle, lock, env, value, cur, buf, pre, lastSet, rest>>

\* ------------------------------------------------------- the two paths
\* snprintf(temp_file, sizeof(temp_file), "%s.tmp", h->filename): the length
\* of the name left in temp_file, which holds TempSize - 1 characters
snprintf ==
    IF pathlen + Suffix < TempSize THEN pathlen + Suffix ELSE TempSize - 1

\* the name in temp_file is the first snprintf characters of the path
\* followed by ".tmp": it is the path itself when the path fills temp_file
TempIsPath == snprintf = pathlen

\* the file a stream opened on temp_file is attached to
TempLoc == IF TempIsPath THEN "path" ELSE "tmp"

\* fopen(temp_file, "w") creates the file or empties the one that is there
fopen_w ==
    IF TempIsPath
    THEN file' = <<>> /\ tmpfile' = tmpfile
    ELSE tmpfile' = <<>> /\ file' = file

\* data written from offset 0 over what the file holds
Over(old, data) == data \o SubSeq(old, Len(data) + 1, Len(old))

\* what reaches the file a stream is attached to: the one at the temporary
\* path, the one at the store's path, or one that has no name any more
fwrite(loc, data) ==
    CASE loc = "tmp"  -> tmpfile' = Over(tmpfile, data) /\ file' = file
      [] loc = "path" -> file' = Over(file, data) /\ tmpfile' = tmpfile
      [] OTHER        -> UNCHANGED <<file, tmpfile>>

\* where rename(temp_file, h->filename) leaves the file a stream is attached to
Renamed(loc) ==
    CASE loc = "tmp"  -> "path"
      [] loc = "path" -> "lost"
      [] OTHER        -> loc

\* rename(temp_file, h->filename) by who, when the temporary file exists
rename(who, text) ==
    /\ file' = tmpfile
    /\ tmpfile' = Absent
    /\ lastRename' = IF peer.pc = "off" THEN lastRename
                     ELSE [who |-> who, text |-> text]

\* ---------------------------------------------------------------- tp_set
\* every return of tp_set after the lock was taken
SetExit(t, r) ==
    /\ pthread_mutex_unlock(t)
    /\ pc' = [pc EXCEPT ![t] = "set_ret"]
    /\ ret' = [ret EXCEPT ![t] = r]
    /\ buf' = [buf EXCEPT ![t] = <<>>]
    /\ temp_fp' = [temp_fp EXCEPT ![t] = NULL]
    /\ pre' = pre
    /\ lastSet' = IF r = "OK"
                  THEN [key |-> key[t], value |-> value[t], ret |-> r]
                  ELSE FailedSet
    /\ UNCHANGED second

\* the failure paths after the mutation: free(cur->valuestring); cur->valuestring = NULL
SetError(t) ==
    /\ valuestring' = [valuestring EXCEPT ![cur[t]] = NULL]
    /\ SetExit(t, "IoError")

\* a call of tp_set fails and tp_set takes its failure path
SetFail(t) == Fault /\ SetError(t)

tp_set_call(t, k, v) ==
    /\ ~crashed
    /\ UNCHANGED store
    /\ pc[t] = "idle"
    /\ pc' = [pc EXCEPT ![t] = "set_lock"]
    /\ key' = [key EXCEPT ![t] = k]
    /\ value' = [value EXCEPT ![t] = v]
    /\ ret' = [ret EXCEPT ![t] = NULL]
    /\ UNCHANGED <<handle, lock, env, cur, buf, pre, lastSet, rest, window>>

\* if (!h || !key || !value || !h->filename) return -1, for a call with a
\* null handle, a null key (k is <<>>) or a null value (v is NULL)
tp_set_null(t, k, v) ==
    /\ ~crashed
    /\ UNCHANGED store
    /\ pc[t] = "idle"
    /\ k = <<>> \/ v = NULL
    /\ pc' = [pc EXCEPT ![t] = "set_ret"]
    /\ key' = [key EXCEPT ![t] = k]
    /\ value' = [value EXCEPT ![t] = v]
    /\ ret' = [ret EXCEPT ![t] = "InvalidArgument"]
    /\ pre' = [pre EXCEPT ![t] = Snapshot]
    /\ lastSet' = FailedSet
    /\ UNCHANGED <<handle, lock, env, cur, buf, rest, window>>

tp_set_lock(t) ==
    /\ ~crashed
    /\ UNCHANGED store
    /\ pc[t] = "set_lock"
    /\ pthread_mutex_lock(t)
    /\ pc' = [pc EXCEPT ![t] = "set_walk"]
    /\ pre' = [pre EXCEPT ![t] = Snapshot]
    /\ UNCHANGED <<handle, env, locals, ret, lastSet, rest, window>>

\* the traversal, then free(cur->valuestring)
tp_set_walk(t) ==
    /\ ~crashed
    /\ UNCHANGED store
    /\ pc[t] = "set_walk"
    /\ LET c == Lookup(key[t]) IN
       \/ /\ c = NULL
          /\ SetExit(t, "KeyNotFound")
          /\ UNCHANGED <<handle, env, key, value, cur, window>>
       \/ /\ c # NULL
          /\ cur' = [cur EXCEPT ![t] = c]
          /\ valuestring' = [valuestring EXCEPT ![c] = FREED]
          /\ pc' = [pc EXCEPT ![t] = "set_dup"]
          /\ UNCHANGED <<file, tmpfile, fp, lock, env, key, value, buf, ret,
                         pre, lastSet, rest, window>>

\* tp_set_dup storing a copy of the key's text in place of the value
tp_set_dup_key(t) ==
    /\ ~crashed
    /\ UNCHANGED store
    /\ pc[t] = "set_dup"
    /\ valuestring' = [valuestring EXCEPT ![cur[t]] = key[t][1]]
    /\ window' = window
    /\ pc' = [pc EXCEPT ![t] = "set_fopen"]
    /\ UNCHANGED <<file, tmpfile, fp, lock, env, locals, ret, pre, lastSet, rest>>

\* cur->valuestring = strdup(value)
tp_set_dup(t) ==
    /\ ~crashed
    /\ UNCHANGED store
    /\ pc[t] = "set_dup"
    /\ valuestring' = [valuestring EXCEPT ![cur[t]] = value[t]]
    /\ window' = [u \in Threads |->
          IF Pending(u) /\ Lookup(key[u]) = cur[t]
          THEN window[u] \cup {value[t]} ELSE window[u]]
    /\ pc' = [pc EXCEPT ![t] = "set_fopen"]
    /\ UNCHANGED <<file, tmpfile, fp, lock, env, locals, ret, pre, lastSet, rest>>

\* fopen(temp_file, "w")
tp_set_fopen(t) ==
    /\ ~crashed
    /\ UNCHANGED store
    /\ pc[t] = "set_fopen"
    /\ \/ /\ fopen_w
          /\ temp_fp' = [temp_fp EXCEPT ![t] = TempLoc]
          /\ pc' = [pc EXCEPT ![t] = "set_print"]
          /\ UNCHANGED <<valuestring, fp, lock, env, locals, ret,
                         pre, lastSet, second, window>>
       \/ /\ SetFail(t)
          /\ UNCHANGED <<file, tmpfile, fp, crashed, key, value, cur, window>>

\* buf = cJSON_Print(h->root)
tp_set_print(t) ==
    /\ ~crashed
    /\ UNCHANGED store
    /\ pc[t] = "set_print"
    /\ \/ /\ buf' = [buf EXCEPT ![t] = cJSON_Print(valuestring)]
          /\ pc' = [pc EXCEPT ![t] = "set_fwrite"]
          /\ UNCHANGED <<handle, lock, env, key, value, cur, ret, pre,
                         lastSet, rest, window>>
       \/ /\ SetFail(t)
          /\ UNCHANGED <<file, tmpfile, fp, crashed, key, value, cur, window>>

\* what is at the temporary path when only n pieces reached it
Written(b, n) == SubSeq(b, 1, n)

\* fwrite(buf, 1, strlen(buf), temp_fp), then fclose(temp_fp) whose result is
\* not looked at: the stream is buffered, so what fwrite accepted reaches the
\* file at the latest in fclose, or does not
tp_set_fwrite(t) ==
    /\ ~crashed
    /\ UNCHANGED store
    /\ pc[t] = "set_fwrite"
    /\ \/ /\ fwrite(temp_fp[t], Written(buf[t], Len(buf[t])))
          /\ temp_fp' = [temp_fp EXCEPT ![t] = NULL]
          /\ pc' = [pc EXCEPT ![t] = "set_rename"]
          /\ buf' = [buf EXCEPT ![t] = <<>>]
          /\ UNCHANGED <<valuestring, fp, lock, env, key, value, cur,
                         ret, pre, lastSet, second, window>>
       \/ /\ Fault
          /\ \E n \in 0..(Len(buf[t]) - 1) : fwrite(temp_fp[t], Written(buf[t], n))
          /\ temp_fp' = [temp_fp EXCEPT ![t] = NULL]
          /\ pc' = [pc EXCEPT ![t] = "set_rename"]
          /\ buf' = [buf EXCEPT ![t] = <<>>]
          /\ UNCHANGED <<valuestring, fp, lock, crashed, key, value, cur,
                         ret, pre, lastSet, second, window>>
       \/ /\ \E n \in 0..(Len(buf[t]) - 1) : fwrite(temp_fp[t], Written(buf[t], n))
          /\ SetFail(t)
          /\ UNCHANGED <<fp, crashed, key, value, cur, window>>

\* rename(temp_file, h->filename): it fails when nothing is at the temporary
\* path any more, and does nothing when both names are the same
tp_set_rename(t) ==
    /\ ~crashed
    /\ UNCHANGED store
    /\ pc[t] = "set_rename"
    /\ \/ /\ ~TempIsPath /\ tmpfile # Absent
          /\ rename("own", cJSON_Print(valuestring))
          /\ peer' = [peer EXCEPT !.temp_fp = Renamed(@)]
          /\ pc' = [pc EXCEPT ![t] = "set_reopen"]
          /\ UNCHANGED <<valuestring, fp, lock, env, locals, ret, pre,
                         lastSet, temp_fp, window>>
       \/ /\ TempIsPath
          /\ lastRename' = lastRename
          /\ pc' = [pc EXCEPT ![t] = "set_reopen"]
          /\ UNCHANGED <<handle, lock, env, locals, ret, pre, lastSet,
                         temp_fp, peer, window>>
       \/ /\ ~TempIsPath /\ tmpfile = Absent
          /\ SetError(t)
          /\ UNCHANGED <<file, tmpfile, fp, env, key, value, cur, window>>
       \/ /\ SetFail(t)
          /\ UNCHANGED <<file, tmpfile, fp, crashed, key, value, cur, window>>

\* fclose(h->fp); h->fp = fopen(h->filename, "r+").  fclose of a null stream
\* is undefined: the process dies there or the call does nothing
tp_set_reopen(t) ==
    /\ ~crashed
    /\ UNCHANGED store
    /\ pc[t] = "set_reopen"
    /\ \/ /\ fp' = "open"
          /\ SetExit(t, "OK")
          /\ UNCHANGED <<valuestring, file, tmpfile, env, key, value, cur, window>>
       \/ /\ fp' = NULL
          /\ SetFail(t)
          /\ UNCHANGED <<file, tmpfile, crashed, key, value, cur, window>>
       \/ /\ fp = NULL
          /\ crashed' = TRUE
          /\ UNCHANGED <<handle, lock, faults, pc, locals, ret, pre, lastSet, rest, window>>

tp_set_return(t) ==
    /\ ~crashed
    /\ UNCHANGED store
    /\ pc[t] = "set_ret"
    /\ pc' = [pc EXCEPT ![t] = "idle"]
    /\ key' = [key EXCEPT ![t] = <<>>]
    /\ value' = [value EXCEPT ![t] = NULL]
    /\ cur' = [cur EXCEPT ![t] = NULL]
    /\ ret' = [ret EXCEPT ![t] = NULL]
    /\ pre' = [pre EXCEPT ![t] = NoPre]
    /\ UNCHANGED <<handle, lock, env, buf, lastSet, rest, window>>

\* ------------------------------------------- tp_set of the second store
\* what a step of the second store leaves alone: the first store's handle,
\* lock and threads
PeerFrame ==
    UNCHANGED <<valuestring, fp, lock, env, pc, locals, ret, pre, lastSet,
                window, store>>

\* tp_set(h2, key, v) on the handle h2 of a second tp_open of the same path,
\* for the key of the i-th string leaf: h2's tree is the text tp_open read
\* with that leaf replaced
peer_call(i, v) ==
    /\ peer.pc = "idle"
    /\ peer' = [peer EXCEPT !.pc = "fopen", !.text = [InitialFile EXCEPT ![i] = v]]
    /\ PeerFrame
    /\ UNCHANGED <<file, tmpfile, temp_fp, lastRename>>

\* temp_fp = fopen(temp_file, "w"), the same name as the first store's
peer_fopen ==
    /\ peer.pc = "fopen"
    /\ fopen_w
    /\ peer' = [peer EXCEPT !.pc = "fwrite", !.temp_fp = TempLoc]
    /\ PeerFrame
    /\ UNCHANGED <<temp_fp, lastRename>>

\* buf = cJSON_Print(h2->root); fwrite(buf, 1, len, temp_fp); fclose(temp_fp)
peer_fwrite ==
    /\ peer.pc = "fwrite"
    /\ fwrite(peer.temp_fp, peer.text)
    /\ peer' = [peer EXCEPT !.pc = "rename", !.temp_fp = NULL]
    /\ PeerFrame
    /\ UNCHANGED <<temp_fp, lastRename>>

\* rename(temp_file, h2->filename), then the reopen and return 0, or the
\* failure return when nothing is at the temporary path any more
peer_rename ==
    /\ peer.pc = "rename"
    /\ PeerFrame
    /\ IF tmpfile # Absent
       THEN /\ rename("peer", peer.text)
            /\ temp_fp' = [u \in Threads |-> Renamed(temp_fp[u])]
            /\ peer' = [peer EXCEPT !.pc = "ret", !.ret = "OK"]
       ELSE /\ peer' = [peer EXCEPT !.pc = "ret", !.ret = "IoError"]
            /\ UNCHANGED <<file, tmpfile, temp_fp, lastRename>>

\* one client calling with any of the keys
Next ==
    \/ \E t \in Threads, k \in Keys : tp_get_call(t, k)
    \/ \E t \in Threads : tp_get_null(t)
    \/ \E t \in Threads, k \in SharedKeys \cup {<<>>}, v \in SharedValues \cup {NULL} :
          tp_set_null(t, k, v)
    \/ \E t \in Threads : tp_get_lock(t)
    \/ \E t \in Threads : tp_get_walk(t)
    \/ \E t \in Threads : tp_get_return(t)
    \/ \E t \in Threads, k \in Keys, v \in Values : tp_set_call(t, k, v)
    \/ \E t \in Threads : tp_set_lock(t)
    \/ \E t \in Threads : tp_set_walk(t)
    \/ \E t \in Threads : tp_set_dup(t)
    \/ \E t \in Threads : tp_set_fopen(t)
    \/ \E t \in Threads : tp_set_print(t)
    \/ \E t \in Threads : tp_set_fwrite(t)
    \/ \E t \in Threads : tp_set_rename(t)
    \/ \E t \in Threads : tp_set_reopen(t)
    \/ \E t \in Threads : tp_set_return(t)

\* the threads calling with the shared keys
NextMT ==
    \/ \E t \in Threads, k \in SharedKeys : tp_get_call(t, k)
    \/ \E t \in Threads : tp_get_lock(t)
    \/ \E t \in Threads : tp_get_walk(t)
    \/ \E t \in Threads : tp_get_return(t)
    \/ \E t \in Threads, k \in SharedKeys, v \in SharedValues : tp_set_call(t, k, v)
    \/ \E t \in Threads : tp_set_lock(t)
    \/ \E t \in Threads : tp_set_walk(t)
    \/ \E t \in Threads : tp_set_dup(t)
    \/ \E t \in Threads : tp_set_fopen(t)
    \/ \E t \in Threads : tp_set_print(t)
    \/ \E t \in Threads : tp_set_fwrite(t)
    \/ \E t \in Threads : tp_set_rename(t)
    \/ \E t \in Threads : tp_set_reopen(t)
    \/ \E t \in Threads : tp_set_return(t)

Spec == Init /\ [][Next]_vars

SpecMT == InitMT /\ [][NextMT]_vars

\* thread t takes the lock, in tp_get or in tp_set
Acquire(t) == tp_get_lock(t) \/ tp_set_lock(t)

\* thread t takes its next step between lock and return
Work(t) ==
    \/ tp_get_walk(t)
    \/ tp_set_walk(t)
    \/ tp_set_dup(t)
    \/ tp_set_fopen(t)
    \/ tp_set_print(t)
    \/ tp_set_fwrite(t)
    \/ tp_set_rename(t)
    \/ tp_set_reopen(t)

\* every thread inside a call goes on, and a thread waiting for the lock gets
\* it if it is free again and again; nothing makes a thread start a call
Fairness == \A t \in 1..NThreads : SF_vars(Acquire(t)) /\ WF_vars(Work(t))

\* the threads of SpecMT under fair scheduling
SpecLive == InitMT /\ [][NextMT]_vars /\ Fairness

\* one client thread on a file whose root string member has the empty name:
\* { "sys": { "vol": "50", "num": 7 }, "": "50" }
InitEmpty == StartWith({1}, "", TestPath, NoPeer)

SpecEmpty == InitEmpty /\ [][Next]_vars

\* path lengths around the size of temp_file: the one of src/test.c, the
\* longest whose temporary name fits, the first that does not, the one that
\* fills temp_file by itself, and one longer than temp_file
PathLens == {TestPath, TempSize - Suffix - 1, TempSize - Suffix,
             TempSize - 1, TempSize}

\* one client thread on a store opened with a path of one of these lengths
InitPath == \E pl \in PathLens : StartWith({1}, "name", pl, NoPeer)

SpecPath == InitPath /\ [][NextMT]_vars

\* one client thread on the store, and a second store opened on the same path
InitTwo == StartWith({1}, "name", TestPath, [NoPeer EXCEPT !.pc = "idle"])

NextTwo ==
    \/ \E t \in Threads, k \in SharedKeys : tp_get_call(t, k)
    \/ \E t \in Threads : tp_get_lock(t)
    \/ \E t \in Threads : tp_get_walk(t)
    \/ \E t \in Threads : tp_get_return(t)
    \/ \E t \in Threads, k \in SharedKeys, v \in SharedValues : tp_set_call(t, k, v)
    \/ \E t \in Threads : tp_set_lock(t)
    \/ \E t \in Threads : tp_set_walk(t)
    \/ \E t \in Threads : tp_set_dup(t)
    \/ \E t \in Threads : tp_set_fopen(t)
    \/ \E t \in Threads : tp_set_print(t)
    \/ \E t \in Threads : tp_set_fwrite(t)
    \/ \E t \in Threads : tp_set_rename(t)
    \/ \E t \in Threads : tp_set_reopen(t)
    \/ \E t \in Threads : tp_set_return(t)
    \/ \E i \in 1..Len(LeafOrder), v \in Values : peer_call(i, v)
    \/ peer_fopen
    \/ peer_fwrite
    \/ peer_rename

SpecTwo == InitTwo /\ [][NextTwo]_vars

\* the texts tp_open may find at the path: none, one that is not JSON, JSON
OpenFiles == {Absent, <<InitialValue>>, InitialFile}

\* one thread about to call tp_open
InitOpen ==
    /\ leafname = "name"
    /\ rootkind \in {cJSON_Object, cJSON_Array}
    /\ pathlen = TestPath
    /\ res = NoResources
    /\ temp_fp = <<NULL>>
    /\ peer = NoPeer
    /\ lastRename = NoRename
    /\ valuestring = [n \in Nodes |-> NULL]
    /\ file \in OpenFiles
    /\ tmpfile = Absent
    /\ fp = NULL
    /\ lock = NoThread
    /\ crashed = FALSE
    /\ faults = 0
    /\ pc = <<"open_access">>
    /\ key = << <<>> >>
    /\ value = <<NULL>>
    /\ cur = <<NULL>>
    /\ buf = << <<>> >>
    /\ ret = <<NULL>>
    /\ pre = <<NoPre>>
    /\ lastSet = NoSet
    /\ window = << {} >>

\* tp_open, then reads, then tp_close
NextOpen ==
    \/ \E t \in Threads : tp_open_access(t)
    \/ \E t \in Threads : tp_open_calloc(t)
    \/ \E t \in Threads : tp_open_mutex(t)
    \/ \E t \in Threads : tp_open_strdup(t)
    \/ \E t \in Threads : tp_open_fopen(t)
    \/ \E t \in Threads : tp_open_stat(t)
    \/ \E t \in Threads : tp_open_malloc(t)
    \/ \E t \in Threads : tp_open_fread(t)
    \/ \E t \in Threads : tp_open_parse(t)
    \/ \E t \in Threads : tp_open_fail(t)
    \/ \E t \in Threads, k \in Keys : tp_get_call(t, k)
    \/ \E t \in Threads : tp_get_null(t)
    \/ \E t \in Threads : tp_get_lock(t)
    \/ \E t \in Threads : tp_get_walk(t)
    \/ \E t \in Threads : tp_get_return(t)
    \/ \E t \in Threads : tp_close(t)

SpecOpen == InitOpen /\ [][NextOpen]_vars

\* ------------------------------------------------------------ properties
\* what tp_get would return from a store freshly opened on a file
GetFresh(text, k) ==
    IF Parses(text) THEN GetResult(cJSON_Parse(text), k) ELSE NULL

NoSetRunning == \A t \in Threads : pc[t] \notin SetCritical

\* C1: a tp_get that follows a successful tp_set of v on the same key, which
\* resolves to a string leaf, with no other tp_set in between, returns v
C1_ReadYourWrites ==
    \A t \in Threads :
        (/\ pc[t] = "get_ret"
         /\ lastSet.ret = "OK"
         /\ lastSet.key = key[t]
         /\ StringLeafKey(key[t]))
        => ret[t] = lastSet.value

\* a tp_get returned the value of a successful tp_set made after a failed one
C1_Witness ==
    \E t \in Threads :
        /\ ~crashed
        /\ pc[t] = "get_ret"
        /\ lastSet.ret = "OK"
        /\ lastSet.key = key[t]
        /\ StringLeafKey(key[t])
        /\ ret[t] = lastSet.value
        /\ faults > 0

\* C2: whenever the most recent tp_set returned success (and the file it left
\* is completely written), every key reads the same from the tree in memory as
\* from a store freshly opened on the file
C2_MemoryMatchesFile ==
    (lastSet.ret = "OK" /\ NoSetRunning /\ Len(file) = Len(LeafOrder))
    => \A k \in Keys : GetResult(valuestring, k) = GetFresh(file, k)

\* C3: the file at the store's path is at every step a complete serialization,
\* the one from before the running tp_set or the one of the tree it wrote, and
\* before the rename it is the one from before
C3_AtomicReplace ==
    /\ Len(file) = Len(LeafOrder)
    /\ \A t \in Threads :
          pc[t] \in SetCritical =>
             /\ file = pre[t].file \/ file = cJSON_Print(valuestring)
             /\ pc[t] # "set_reopen" => file = pre[t].file

\* C4: a tp_get returns a value the leaf held when it was called or one a
\* tp_set running alongside it stored, never a freed or missing one
C4_GetSeesBeforeOrAfter ==
    \A t \in Threads : pc[t] = "get_ret" => ret[t] \in window[t]

\* C5: a tp_set on a key whose path cannot be followed, because a piece names
\* no child or because a piece before the last names a leaf, fails (the code
\* returns -1 for every kind of failure) and leaves the file as it was
C5_SetUnresolvedKeyFails ==
    \A t \in Threads :
        (pc[t] = "set_ret" /\ Resolve(ROOT, strtok_r(key[t]), 1) = NULL)
        => (ret[t] # "OK" /\ file = pre[t].file)

\* C6: a tp_get on a key that does not resolve exactly to a string leaf
\* returns nothing
C6_GetUnresolvedKeyFails ==
    \A t \in Threads :
        (pc[t] = "get_ret" /\ ~StringLeafKey(strtok_r(key[t])))
        => ret[t] = NULL

\* C7: a tp_set on a key that resolves to an object or to a leaf that is not
\* a string fails and leaves the tree as it was, and no tp_set makes a key
\* readable that was not readable when the store was opened
C7_SetOnlyMutatesStringLeaves ==
    /\ \A t \in Threads :
          (/\ pc[t] = "set_ret"
           /\ Resolve(ROOT, key[t], 1) # NULL
           /\ type[Resolve(ROOT, key[t], 1)] # cJSON_String)
          => (ret[t] # "OK" /\ valuestring = pre[t].valuestring)
    /\ NoSetRunning =>
          \A k \in Keys :
             GetResult(valuestring, k) # NULL
             => GetResult(cJSON_Parse(InitialFile), k) # NULL

\* C8: after a successful tp_set that left a completely written file, every
\* leaf but the addressed one has in the file the value it had there before
C8_SetChangesOnlyItsLeaf ==
    \A t \in Threads :
        (pc[t] = "set_ret" /\ ret[t] = "OK" /\ Len(file) = Len(LeafOrder))
        => \A i \in 1..Len(LeafOrder) :
              LeafOrder[i] # cur[t] => file[i] = pre[t].file[i]

\* C9: a tp_set that fails with an I/O error leaves the tree as it was before
\* the call, so the key reads as before
C9_FailedSetRollsBack ==
    \A t \in Threads :
        (pc[t] = "set_ret" /\ ret[t] = "IoError")
        => /\ valuestring = pre[t].valuestring
           /\ GetResult(valuestring, key[t]) = GetResult(pre[t].valuestring, key[t])

\* a thread is between lock and unlock of tp_get or tp_set exactly when it
\* holds the lock
C10_LockHeld ==
    \A t \in Threads : (pc[t] \in SetCritical \cup GetCritical) <=> lock = t

\* a step that changes the tree, a file or the file handle is a step of the
\* thread that holds the lock
C10_TouchUnderLock ==
    handle' # handle => (lock # NoThread /\ pc'[lock] # pc[lock])

\* C10: tp_get and tp_set read and change the tree and the files only while
\* holding the lock, and no call has returned with the lock still held
C10_LockDiscipline == [](C10_LockHeld) /\ [][C10_TouchUnderLock]_vars

\* a tp_set has returned through an error path and another thread is inside
\* tp_get with the lock
C10_Witness ==
    \E t, u \in Threads :
        /\ t # u
        /\ pc[t] = "set_ret" /\ ret[t] \in {"IoError", "KeyNotFound"}
        /\ pc[u] = "get_walk" /\ lock = u

\* C11: a tp_get on a key that resolves exactly to a string leaf returns the
\* leaf's value: the one tp_open read while no tp_set has been made, the one
\* the latest successful tp_set stored when it was on that key, and always one
\* of the values the store was given
C11_GetReturnsCurrentValue ==
    \A t \in Threads :
        (pc[t] = "get_ret" /\ StringLeafKey(key[t]))
        => /\ ret[t] \in {InitialValue} \cup Values
           /\ lastSet = NoSet => ret[t] = InitialValue
           /\ (lastSet.ret = "OK" /\ lastSet.key = key[t]) => ret[t] = lastSet.value

\* the positions inside tp_get and inside tp_set
GetPcs == {"get_lock", "get_walk", "get_ret"}
SetPcs == SetCritical \cup {"set_lock", "set_ret"}

\* thread t is in a call that has a null or empty key or a null value
BadArguments(t) ==
    \/ pc[t] \in GetPcs /\ key[t] \in {<<>>, <<"">>}
    \/ pc[t] \in SetPcs /\ (key[t] \in {<<>>, <<"">>} \/ value[t] = NULL)

\* such a call has failed when it returns
C12_Fails ==
    \A t \in Threads :
        /\ (pc[t] = "get_ret" /\ BadArguments(t)) => ret[t] = NULL
        /\ (pc[t] = "set_ret" /\ BadArguments(t)) => ret[t] # "OK"

\* no step of such a call, its entry and its return included, changes the
\* tree, a file or the file handle
C12_NoEffect ==
    \A t \in Threads :
        (pc'[t] # pc[t] /\ (BadArguments(t) \/ BadArguments(t)'))
        => UNCHANGED <<valuestring, file, tmpfile, fp>>

\* C12: a tp_get or tp_set called with a null handle, a null or empty key or
\* (tp_set) a null value fails (the code returns NULL or -1 for every kind of
\* failure), performs no file I/O and leaves the tree as it was
C12_InvalidArgumentsRejected == [](C12_Fails) /\ [][C12_NoEffect]_vars

\* C13: tp_open returns a handle only for a file that exists and parses, and
\* when it returns NULL everything it had acquired (the handle, the lock, the
\* copy of the path, the stream, the read buffer) has been released once and
\* nothing is still held
C13_OpenFailsAtomically ==
    \A t \in Threads :
        /\ pc[t] = "open_failed" => \A r \in Resources : res[r] \in {"none", "freed"}
        /\ ~Parses(file) => pc[t] \in OpenPcs \cup {"open_failed"}

\* tp_open returned NULL for a text that is not JSON, after the stream and the
\* read buffer had been acquired
C13_Witness ==
    \E t \in Threads :
        /\ pc[t] = "open_failed"
        /\ file # Absent /\ ~Parses(file)
        /\ faults = 0
        /\ res["fp"] = "freed" /\ res["buf"] = "freed" /\ res["handle"] = "freed"

\* C14: tp_open returns a handle only when the root of the parsed text is an
\* object
C14_OpenRejectsNonObjectRoot ==
    \A t \in Threads :
        pc[t] \notin OpenPcs \cup {"open_failed"} => rootkind = cJSON_Object

\* C15: while tp_set has its temporary file open, the name it opened is the
\* whole path followed by ".tmp", the stream is attached to a file other than
\* the one at the store's path, and the file at the store's path is still
\* what it was when tp_set was entered
C15_TempNameExact ==
    \A t \in Threads :
        pc[t] \in {"set_print", "set_fwrite"}
        => /\ snprintf = pathlen + Suffix
           /\ temp_fp[t] = "tmp"
           /\ file = pre[t].file

\* C16: when a tp_set of each of two stores opened on the same path has
\* returned and no file operation failed, the file at the path is the complete
\* text printed by the tp_set whose rename came last
C16_LastRenameWins ==
    \A t \in Threads :
        (/\ pc[t] = "set_ret" /\ peer.pc = "ret"
         /\ faults = 0
         /\ lastRename # NoRename)
        => file = lastRename.text

\* C17: whenever tp_set is about to close and reopen the store's stream, the
\* stream is a valid one, whatever failed in earlier calls, and the process
\* never dies inside a call
C17_NeverClosesNullStream ==
    /\ ~crashed
    /\ \A t \in Threads : pc[t] = "set_reopen" => fp # NULL

\* a step of a call of tp_get by thread t, its entry and its return included
GetStep(t) == pc'[t] # pc[t] /\ (pc[t] \in GetPcs \/ pc'[t] \in GetPcs)

\* a step of tp_get changes neither the tree nor a file nor the file handle,
\* and a step that changes one of them is a step of a thread inside tp_set
C19_GetLeaves ==
    /\ \A t \in Threads :
          GetStep(t) => UNCHANGED <<valuestring, file, tmpfile, fp, pathlen>>
    /\ <<valuestring, file, tmpfile, fp>>' # <<valuestring, file, tmpfile, fp>>
       => \E t \in Threads : pc[t] \in SetCritical /\ pc'[t] # pc[t]

\* C19: tp_get, whether it returns a value or NULL, leaves the tree, the file,
\* the temporary path and the file handle as they were; only tp_set changes
\* them between tp_open and tp_close
C19_GetIsReadOnly == [][C19_GetLeaves]_vars

\* a tp_get has returned a value that a tp_set stored, after a failure
C19_Witness ==
    \E t \in Threads :
        /\ pc[t] = "get_ret" /\ ret[t] \in Values
        /\ lastSet.ret = "OK" /\ faults > 0

\* C20: a call with a key that has a dot does what the call with the key
\* without its empty pieces does: tp_get returns the same, tp_set fails with
\* not-found for the same keys and otherwise stores at the same node; a key of
\* dots only fails and leaves the tree and the file as they were
C20_EmptySegmentsIgnored ==
    \A t \in Threads :
        Len(key[t]) > 1 =>
           LET k == strtok_r(key[t]) IN
           /\ (pc[t] = "get_ret" /\ k # <<>>) => ret[t] = GetResult(valuestring, k)
           /\ (pc[t] = "get_ret" /\ k = <<>>) => ret[t] = NULL
           /\ (pc[t] = "set_ret" /\ k # <<>> /\ value[t] # NULL)
              => /\ ret[t] = "KeyNotFound" <=> Lookup(k) = NULL
                 /\ ret[t] # "KeyNotFound" => cur[t] = Lookup(k)
           /\ (pc[t] = "set_ret" /\ k = <<>>)
              => (ret[t] # "OK" /\ Snapshot = pre[t])

====
